---------------------------- MODULE Spec2Model ----------------------------
(***************************************************************************)
(* The two iterative solvers of src/finance.ts: Finance.IRR (a linear      *)
(* search over the periodic NPV function, driven by Finance.seekZero) and  *)
(* Finance.XIRR (Newton-Raphson on the dated NPV function, Finance.sumEq). *)
(*                                                                         *)
(* Numbers.  The code computes in IEEE-754 binary64.  The model computes   *)
(* exactly, on integers of unbounded size (sequences of limbs):            *)
(*   - an IRR rate is an integer number of hundredths of a percent (x = 1  *)
(*     is 100, x -= 0.01 is -1); the NPV closure is only ever compared     *)
(*     with 0, so the model computes its sign, exactly;                    *)
(*   - an XIRR guess is a decimal with six fractional digits (an integer   *)
(*     number of millionths), or one of NaN, Infinity, -Infinity; each     *)
(*     Newton step is computed exactly and rounded once to that grid.      *)
(* The binary rounding error of the last bits of a double is not modelled. *)
(***************************************************************************)
EXTENDS Integers, Sequences, FiniteSets, TLC

VARIABLES
    op,             \* which solver this invocation runs: "IRR" or "XIRR"
    pc,             \* position in the invocation
    cashFlows,      \* argument: the cash-flow series
    cfs,            \* IRR's first argument (the cap on numberOfTries)
    dates,          \* XIRR argument: the dates, in days
    guessArg,       \* XIRR argument: the seed
    numberOfTries,  \* IRR local (line 60)
    x,              \* seekZero local, in hundredths of a percent
    phase,          \* which loop of seekZero made the last call of fn
    evals,          \* number of NPV evaluations that ran to completion
    ascSteps,       \* number of executions of x += 1
    descSteps,      \* number of executions of x -= 0.01
    evalAt,         \* the rate of the latest NPV evaluation (when evals > 0)
    durs,           \* XIRR local (line 114)
    guess,          \* XIRR local
    guess_last,     \* XIRR local
    limit,          \* XIRR local (line 112)
    iters,          \* number of executions of the body of XIRR's loop
    outcome,        \* what the invocation returned or threw
    calls,          \* number of invocations started so far
    memo            \* the (arguments, outcome) pairs of the finished invocations

vars == <<op, pc, cashFlows, cfs, dates, guessArg, numberOfTries, x, phase,
          evals, ascSteps, descSteps, evalAt, durs, guess, guess_last, limit,
          iters, outcome, calls, memo>>

-----------------------------------------------------------------------------
(* Exact integer arithmetic.  A natural number is a sequence of limbs in   *)
(* base 10^4, least significant first, without leading zero limbs; an      *)
(* integer is a record [s |-> sign, m |-> magnitude].                      *)

LimbBase == 10^4

Sgn(n) == IF n > 0 THEN 1 ELSE IF n < 0 THEN -1 ELSE 0

Abs(n) == IF n < 0 THEN -n ELSE n

RECURSIVE NatOfInt(_)
NatOfInt(n) == IF n = 0 THEN <<>> ELSE <<n % LimbBase>> \o NatOfInt(n \div LimbBase)

RECURSIVE NatStrip(_)
NatStrip(a) ==
    IF a = <<>> THEN <<>>
    ELSE IF a[Len(a)] = 0 THEN NatStrip(SubSeq(a, 1, Len(a) - 1))
    ELSE a

RECURSIVE NatAddC(_, _, _)
NatAddC(a, b, c) ==
    IF a = <<>> /\ b = <<>> THEN (IF c = 0 THEN <<>> ELSE <<c>>)
    ELSE LET da == IF a = <<>> THEN 0 ELSE Head(a)
             db == IF b = <<>> THEN 0 ELSE Head(b)
             ta == IF a = <<>> THEN <<>> ELSE Tail(a)
             tb == IF b = <<>> THEN <<>> ELSE Tail(b)
             s  == da + db + c
         IN  <<s % LimbBase>> \o NatAddC(ta, tb, s \div LimbBase)

NatAdd(a, b) == NatAddC(a, b, 0)

\* a - b - c for a >= b + c, before the leading zeros are stripped
RECURSIVE NatSubB(_, _, _)
NatSubB(a, b, c) ==
    IF a = <<>> THEN <<>>
    ELSE LET db == IF b = <<>> THEN 0 ELSE Head(b)
             tb == IF b = <<>> THEN <<>> ELSE Tail(b)
             d  == Head(a) - db - c
         IN  IF d < 0 THEN <<d + LimbBase>> \o NatSubB(Tail(a), tb, 1)
             ELSE <<d>> \o NatSubB(Tail(a), tb, 0)

NatSub(a, b) == NatStrip(NatSubB(a, b, 0))

\* -1, 0 or 1 as a < b, a = b or a > b
RECURSIVE NatCmpFrom(_, _, _)
NatCmpFrom(a, b, i) ==
    IF i = 0 THEN 0
    ELSE IF a[i] < b[i] THEN -1
    ELSE IF a[i] > b[i] THEN 1
    ELSE NatCmpFrom(a, b, i - 1)

NatCmp(a, b) ==
    IF Len(a) < Len(b) THEN -1
    ELSE IF Len(a) > Len(b) THEN 1
    ELSE NatCmpFrom(a, b, Len(a))

RECURSIVE NatMulLimb(_, _, _)
NatMulLimb(a, d, c) ==
    IF a = <<>> THEN (IF c = 0 THEN <<>> ELSE <<c>>)
    ELSE LET p == Head(a) * d + c
         IN  <<p % LimbBase>> \o NatMulLimb(Tail(a), d, p \div LimbBase)

RECURSIVE NatMul(_, _)
NatMul(a, b) ==
    IF a = <<>> \/ b = <<>> THEN <<>>
    ELSE LET rest == NatMul(a, Tail(b))
             shifted == IF rest = <<>> THEN <<>> ELSE <<0>> \o rest
         IN  NatAdd(NatStrip(NatMulLimb(a, Head(b), 0)), shifted)

\* floor(a / b) for b > 0 and a quotient below 2^(bit+1), by bisection
RECURSIVE NatQuot(_, _, _, _)
NatQuot(a, b, bit, acc) ==
    IF bit < 0 THEN acc
    ELSE LET t == acc + 2^bit
         IN  IF NatCmp(NatMul(NatOfInt(t), b), a) <= 0
             THEN NatQuot(a, b, bit - 1, t)
             ELSE NatQuot(a, b, bit - 1, acc)

ZOfInt(n) == [s |-> Sgn(n), m |-> NatOfInt(Abs(n))]

ZAdd(a, b) ==
    IF a.s = 0 THEN b
    ELSE IF b.s = 0 THEN a
    ELSE IF a.s = b.s THEN [s |-> a.s, m |-> NatAdd(a.m, b.m)]
    ELSE LET c == NatCmp(a.m, b.m)
         IN  IF c = 0 THEN [s |-> 0, m |-> <<>>]
             ELSE IF c > 0 THEN [s |-> a.s, m |-> NatSub(a.m, b.m)]
             ELSE [s |-> b.s, m |-> NatSub(b.m, a.m)]

ZMul(a, b) ==
    IF a.s = 0 \/ b.s = 0 THEN [s |-> 0, m |-> <<>>]
    ELSE [s |-> a.s * b.s, m |-> NatMul(a.m, b.m)]

RECURSIVE ZPow(_, _)
ZPow(a, e) == IF e = 0 THEN ZOfInt(1) ELSE ZMul(a, ZPow(a, e - 1))

-----------------------------------------------------------------------------
(* Finance.IRR *)

\* lines 62-66: the forEach that looks for a positive and a negative value
HasPositive(cf) == \E i \in 1..Len(cf) : cf[i] > 0

HasNegative(cf) == \E i \in 1..Len(cf) : cf[i] < 0

\* mutant: line 67 with || for &&, one sign is enough
ValidSeries_EitherSign(cf) == HasPositive(cf) \/ HasNegative(cf)

\* line 67
ValidSeries(cf) == HasPositive(cf) /\ HasNegative(cf)

\* The index (0-based) of the last non-zero cash flow
LastNonZero(cf) ==
    LET nz == {i \in 1..Len(cf) : cf[i] # 0}
    IN  CHOOSE i \in nz : \A j \in nz : j <= i

\* lines 77-82 times rrate^(n-1): sum of cf[i] * 10^(4i) * b^(n-1-i), where
\* rrate = b / 10^4 and n = Len(cf); the loop of line 79 as a Horner scheme
RECURSIVE NpvNumerator(_, _, _)
NpvNumerator(cf, b, n) ==
    IF n = 1 THEN ZOfInt(cf[1])
    ELSE ZAdd(ZMul(NpvNumerator(cf, b, n - 1), ZOfInt(b)),
              ZMul(ZOfInt(cf[n]), ZPow(ZOfInt(LimbBase), n - 1)))

\* The sign of the value the closure npv returns at rate k (hundredths of a
\* percent): rrate = 1 + rate / 100 = (10^4 + k) / 10^4.
\* At k = -10000 the double x is -100.00000000001425 (1 minus 10100 times 0.01,
\* each subtraction rounded) and rrate is -1.4255e-13, not 0: the sum is
\* dominated by the last non-zero cash flow, over a tiny negative power.
NpvSign(cf, k) ==
    LET b == 10000 + k
        n == Len(cf)
    IN  IF b = 0
        THEN LET m == LastNonZero(cf) - 1
             IN  IF m % 2 = 0 THEN Sgn(cf[m + 1]) ELSE -Sgn(cf[m + 1])
        ELSE LET num == NpvNumerator(cf, b, n).s
             IN  IF b > 0 \/ (n - 1) % 2 = 0 THEN num ELSE -num

\* mutant: line 74 with >= for >
CapExceeded_Early(n, cap) == n >= cap

\* line 74: the test that makes the closure throw
CapExceeded(n, cap) == n > cap

\* seekZero line 432: the first loop goes on while fn(x) > 0
AscendsOn(sign) == sign > 0

\* seekZero line 435: the second loop goes on while fn(x) < 0
DescendsOn(sign) == sign < 0

\* mutant: the ascent in steps of 2
AscendStep_Two(k) == k + 200

\* seekZero line 433: x += 1
AscendStep(k) == k + 100

\* seekZero line 436: x -= 0.01
DescendStep(k) == k - 1

\* mutant: line 438 returns x
SeekResult_NoStep(k) == k

\* seekZero line 438 and IRR line 84: x + 0.01, rounded to two decimals
SeekResult(k) == k + 1

-----------------------------------------------------------------------------
(* Doubles of Finance.XIRR: [t |-> "fin", v |-> millionths], or NaN, or an *)
(* infinity.                                                               *)

Scale == 10^6

DFin(v) == [t |-> "fin", v |-> v]

DNaN == [t |-> "nan", v |-> 0]

DInf == [t |-> "inf", v |-> 0]

DNegInf == [t |-> "ninf", v |-> 0]

DOfSign(s) == IF s > 0 THEN DInf ELSE IF s < 0 THEN DNegInf ELSE DNaN

\* a - b on doubles (line 125)
DSub(a, b) ==
    IF a.t = "nan" \/ b.t = "nan" THEN DNaN
    ELSE IF a.t = "fin" /\ b.t = "fin" THEN DFin(a.v - b.v)
    ELSE IF b.t = "fin" THEN a
    ELSE LET nb == IF b.t = "inf" THEN DNegInf ELSE DInf
         IN  IF a.t = "fin" \/ a = nb THEN nb ELSE DNaN

\* Number.prototype.toFixed(5) (lines 127, 129): the string, as its sign and
\* its digits; the magnitude is rounded to 5 decimals, a tie upwards, and a
\* negative number keeps its "-" even when it rounds to 0.00000.
ToFixed5(d) ==
    IF d.t = "fin"
    THEN [str |-> "digits", neg |-> d.v < 0, n |-> (Abs(d.v) + 5) \div 10]
    ELSE [str |-> IF d.t = "nan" THEN "NaN"
                  ELSE IF d.t = "inf" THEN "Infinity" ELSE "-Infinity",
          neg |-> FALSE, n |-> 0]

\* lines 127 and 129: guess_last.toFixed(5) != guess.toFixed(5)
Differ(a, b) == ToFixed5(a) # ToFixed5(b)

\* lines 129-131: Math.round(guess * 100 * 100) / 100, in hundredths of a
\* percent (Math.round rounds a tie towards +Infinity)
RoundedPercent(d) == IF d.t = "fin" THEN DFin((d.v + 50) \div 100) ELSE d

\* lines 420-424, for dates in days that are whole years apart
DaysPerYear == 365

durYear(first, last) == Abs(last - first) \div DaysPerYear

\* lines 114-121
Durations(ds) == [i \in 1..Len(ds) |-> IF i = 1 THEN 0 ELSE durYear(ds[1], ds[i])]

MaxOf(seq) == CHOOSE m \in {seq[i] : i \in 1..Len(seq)} :
                  \A i \in 1..Len(seq) : seq[i] <= m

\* sum_fx * u^(dm+1), u = 1 + guess = U / Scale, in units of Scale^-(dm+1):
\* the sum over i of cf[i] * Scale^d[i] * U^(dm+1-d[i])  (lines 406-408)
RECURSIVE SumFx(_, _, _, _, _)
SumFx(cf, d, U, dm, i) ==
    IF i = 0 THEN ZOfInt(0)
    ELSE ZAdd(SumFx(cf, d, U, dm, i - 1),
              ZMul(ZOfInt(cf[i]),
                   ZMul(ZPow(ZOfInt(Scale), d[i]), ZPow(ZOfInt(U), dm + 1 - d[i]))))

\* sum_fdx * u^(dm+1), in units of Scale^-dm: the sum over i of
\* -cf[i] * d[i] * Scale^d[i] * U^(dm-d[i])  (lines 409-411)
RECURSIVE SumFdx(_, _, _, _, _)
SumFdx(cf, d, U, dm, i) ==
    IF i = 0 THEN ZOfInt(0)
    ELSE ZAdd(SumFdx(cf, d, U, dm, i - 1),
              ZMul(ZOfInt(-cf[i] * d[i]),
                   ZMul(ZPow(ZOfInt(Scale), d[i]), ZPow(ZOfInt(U), dm - d[i]))))

\* a / b rounded to the nearest integer, for b # 0
ZDivRound(a, b) ==
    LET two == NatOfInt(2)
        q   == NatQuot(NatAdd(NatMul(two, a.m), b.m), NatMul(two, b.m), 30, 0)
    IN  a.s * b.s * q

\* lines 403-413: sum_fx / sum_fdx.
\*  - guess NaN: every power but pow(NaN, 0) is NaN, and so is sum_fdx;
\*  - guess infinite: the dated terms of sum_fx vanish, sum_fdx is +0;
\*  - 1 + guess = 0: the first term of sum_fdx is -cf[0] * 0 * Infinity, NaN;
\*  - sum_fdx = 0: it is +0 (the sum starts at +0), so the quotient is an
\*    infinity of the sign of sum_fx, or NaN for 0 / 0.
sumEq(cf, d, g) ==
    IF g.t = "nan" THEN DNaN
    ELSE IF g.t # "fin"
    THEN LET same == {i \in 1..Len(cf) : d[i] = 0}
             RECURSIVE Sum(_)
             Sum(S) == IF S = {} THEN 0
                       ELSE LET i == CHOOSE j \in S : TRUE
                            IN  cf[i] + Sum(S \ {i})
         IN  DOfSign(Sum(same))
    ELSE LET U  == Scale + g.v
             dm == MaxOf(d)
         IN  IF U = 0 THEN DNaN
             ELSE LET fx  == SumFx(cf, d, U, dm, Len(cf))
                      fdx == SumFdx(cf, d, U, dm, Len(cf))
                  IN  IF fdx.s = 0
                      THEN DOfSign(IF U > 0 \/ (dm + 1) % 2 = 0 THEN fx.s ELSE -fx.s)
                      ELSE DFin(ZDivRound(fx, fdx))

\* line 112: the loop limit
LoopLimit == 100

-----------------------------------------------------------------------------
(* The invocations the model explores.                                     *)

MaxCap == 6

MaxCalls == 3

\* IRR: series whose search ends within a few evaluations, under every cap
\* from 0 to MaxCap ...
ShortSeries ==
    { <<-100, 102>>, <<-100, 103>>, <<100, -101>>, <<-100, 0, 104>>,
      <<-100, 105>>, <<1, -1>>, <<1, -2>>,
      <<>>, <<5>>, <<1, 2>>, <<-1, -2>>, <<0, 0>>, <<0, 5>>, <<-3, 0>> }

\* ... and series with a longer search, each under the caps that matter for
\* it: searches that end in the descent, one that never leaves the ascent,
\* the test of src/mod_test.ts lines 23-26, and searches that descend from
\* 1 percent to -100 percent and beyond.
MediumSearches ==
    { <<53, <<-1000, 1015>>>>, <<54, <<-1000, 1015>>>>,
      <<70, <<-200, 100, 110>>>>, <<200, <<-200, 100, 110>>>>,
      <<110, <<-100, 100>>>>, <<250, <<-100, 99>>>>,
      <<150, <<-1, 3, -2>>>>, <<300, <<1, -1>>>>,
      <<200, <<-100000, 101005>>>>, <<120, <<0, 1, -2>>>> }

LongSearches ==
    { <<10000, <<-6, 297, 307>>>>, <<5024, <<-6, 297, 307>>>>,
      <<5025, <<-6, 297, 307>>>>,
      <<10200, <<1, -2>>>>, <<10200, <<10000, -19998, -4>>>>,
      <<10150, <<0, 1, -2>>>> }

IRRInputs == ((0..MaxCap) \X ShortSeries) \cup MediumSearches \cup LongSearches

\* XIRR: <<cashFlows, dates (days), guess (millionths)>>
XIRRInputs ==
    { <<<<-3, 3>>, <<0, 365>>, 0>>,
      <<<<-3, 2>>, <<0, 365>>, 0>>,
      <<<<-2, 3>>, <<730, 0>>, 1000000>>,
      <<<<-3, 1>>, <<0, 730>>, -500000>>,
      <<<<-2, -3, 3>>, <<0, 365, 730>>, 100000>>,
      <<<<1, -2, 1>>, <<0, 365, 730>>, 100000>>,
      <<<<-3, 2, 3>>, <<365, 1095, 730>>, 500000>>,
      <<<<-3, -2, 1>>, <<0, 0, 730>>, 0>>,
      <<<<-3, 1, -2>>, <<0, 730, 0>>, -2000000>>,
      <<<<-3, 1>>, <<0, 0>>, 0>>,
      <<<<-2, 3>>, <<365, 365>>, 500000>>,
      <<<<-3, 1>>, <<0, 365>>, -1000000>>,
      <<<<-3, 1>>, <<0, 730>>, 0>>,
      <<<<-3, -3, 3>>, <<0, 730, 365>>, 0>>,
      <<<<1, -1, 1>>, <<0, 365, 730>>, 0>>,
      <<<<1, -1>>, <<0>>, 0>>, <<<<1>>, <<0, 365>>, 0>>,
      <<<<>>, <<>>, 0>>, <<<<1, 2>>, <<0, 365>>, 0>>,
      <<<<-1, 0>>, <<0, 365>>, 100000>>, <<<<-1, 1>>, <<0, 365, 730>>, 0>> }

\* the invocations of the runs that call the solvers several times
SeqIRRInputs ==
    { <<3, <<-100, 102>>>>, <<4, <<-100, 102>>>>, <<4, <<-100, 103>>>>,
      <<4, <<1, 2>>>> }

SeqXIRRInputs ==
    { <<<<-3, 2>>, <<0, 365>>, 0>>, <<<<-3, 1>>, <<0, 0>>, 0>>,
      <<<<1, -1>>, <<0>>, 0>> }

-----------------------------------------------------------------------------
(* State *)

NoOutcome == [kind |-> "none", val |-> DFin(0)]

Thrown(kind) == [kind |-> kind, val |-> DFin(0)]

Returned(d) == [kind |-> "rate", val |-> d]

ReturnedNull == [kind |-> "null", val |-> DFin(0)]

Locals0 ==
    /\ numberOfTries = 0 /\ x = 0 /\ phase = "none"
    /\ evals = 0 /\ ascSteps = 0 /\ descSteps = 0 /\ evalAt = 0
    /\ durs = <<>> /\ guess = DFin(0) /\ guess_last = DFin(0) /\ limit = 0
    /\ iters = 0
    /\ outcome = NoOutcome /\ calls = 0 /\ memo = {}

ArgsIRR(in) ==
    /\ op = "IRR" /\ cfs = in[1] /\ cashFlows = in[2]
    /\ dates = <<>> /\ guessArg = 0

ArgsXIRR(in) ==
    /\ op = "XIRR" /\ cashFlows = in[1] /\ dates = in[2] /\ guessArg = in[3]
    /\ cfs = 0

Init ==
    /\ pc = "start"
    /\ \/ \E in \in IRRInputs : ArgsIRR(in)
       \/ \E in \in XIRRInputs : ArgsXIRR(in)
    /\ Locals0

\* a call of IRR with a short or a medium search
InitIRR ==
    /\ pc = "start"
    /\ \E in \in ((0..MaxCap) \X ShortSeries) \cup MediumSearches : ArgsIRR(in)
    /\ Locals0

InitSeq ==
    /\ pc = "start"
    /\ \/ \E in \in SeqIRRInputs : ArgsIRR(in)
       \/ \E in \in SeqXIRRInputs : ArgsXIRR(in)
    /\ Locals0

\* the invocation ends with outcome o
Finish(o) ==
    /\ pc' = "done"
    /\ outcome' = o
    /\ memo' = memo \cup {[op |-> op, cashFlows |-> cashFlows, cfs |-> cfs,
                           dates |-> dates, guessArg |-> guessArg, out |-> o]}

-----------------------------------------------------------------------------
(* Finance.IRR, lines 59-85, and Finance.seekZero, lines 430-439 *)

\* mutant: numberOfTries is not a local of the call, it keeps its value from
\* one invocation to the next
IRR_KeepsCounter ==
    /\ pc = "start" /\ op = "IRR"
    /\ calls' = calls + 1
    /\ numberOfTries' = numberOfTries
    /\ evals' = 0 /\ ascSteps' = 0 /\ descSteps' = 0 /\ evalAt' = 0
    /\ phase' = "none"
    /\ IF ValidSeries(cashFlows)
       THEN /\ x' = 100
            /\ pc' = "ascend"
            /\ UNCHANGED <<outcome, memo>>
       ELSE /\ x' = 0
            /\ Finish(Thrown("InvalidInput"))
    /\ UNCHANGED <<op, cashFlows, cfs, dates, guessArg, durs, guess, guess_last,
                   limit, iters>>

\* lines 59-71 and 431: the entry of IRR up to the first call of fn
IRR ==
    /\ pc = "start" /\ op = "IRR"
    /\ calls' = calls + 1
    /\ numberOfTries' = 1
    /\ evals' = 0 /\ ascSteps' = 0 /\ descSteps' = 0 /\ evalAt' = 0
    /\ phase' = "none"
    /\ IF ValidSeries(cashFlows)
       THEN /\ x' = 100
            /\ pc' = "ascend"
            /\ UNCHANGED <<outcome, memo>>
       ELSE /\ x' = 0
            /\ Finish(Thrown("InvalidInput"))
    /\ UNCHANGED <<op, cashFlows, cfs, dates, guessArg, durs, guess, guess_last,
                   limit, iters>>

\* lines 73-76 at one call of fn: the counter is incremented, then tested
NpvCall(thrown) ==
    /\ numberOfTries' = numberOfTries + 1
    /\ thrown = CapExceeded(numberOfTries + 1, cfs)

\* mutant: the descent gets a budget of its own, the counter starts again at 1
\* when the first loop ends
SeekAscend_ResetsCounter ==
    /\ pc = "ascend"
    /\ phase' = "ascent"
    /\ \E thrown \in BOOLEAN :
        /\ thrown = CapExceeded(numberOfTries + 1, cfs)
        /\ IF thrown
           THEN /\ Finish(Thrown("ConvergenceFailure"))
                /\ numberOfTries' = numberOfTries + 1
                /\ UNCHANGED <<x, evals, evalAt, ascSteps>>
           ELSE /\ evals' = evals + 1
                /\ evalAt' = x
                /\ UNCHANGED <<outcome, memo>>
                /\ IF AscendsOn(NpvSign(cashFlows, x))
                   THEN /\ x' = AscendStep(x)
                        /\ ascSteps' = ascSteps + 1
                        /\ pc' = "ascend"
                        /\ numberOfTries' = numberOfTries + 1
                   ELSE /\ pc' = "descend"
                        /\ numberOfTries' = 1
                        /\ UNCHANGED <<x, ascSteps>>
    /\ UNCHANGED <<op, cashFlows, cfs, dates, guessArg, descSteps, durs, guess,
                   guess_last, limit, iters, calls>>

\* line 432-434: one test of the first loop, and its body
SeekAscend ==
    /\ pc = "ascend"
    /\ phase' = "ascent"
    /\ \E thrown \in BOOLEAN :
        /\ NpvCall(thrown)
        /\ IF thrown
           THEN /\ Finish(Thrown("ConvergenceFailure"))
                /\ UNCHANGED <<x, evals, evalAt, ascSteps>>
           ELSE /\ evals' = evals + 1
                /\ evalAt' = x
                /\ UNCHANGED <<outcome, memo>>
                /\ IF AscendsOn(NpvSign(cashFlows, x))
                   THEN /\ x' = AscendStep(x)
                        /\ ascSteps' = ascSteps + 1
                        /\ pc' = "ascend"
                   ELSE /\ pc' = "descend"
                        /\ UNCHANGED <<x, ascSteps>>
    /\ UNCHANGED <<op, cashFlows, cfs, dates, guessArg, descSteps, durs, guess,
                   guess_last, limit, iters, calls>>

\* mutant: the second loop calls the NPV function without the counter
SeekDescend_Uncapped ==
    /\ pc = "descend"
    /\ phase' = "descent"
    /\ evals' = evals + 1
    /\ evalAt' = x
    /\ IF DescendsOn(NpvSign(cashFlows, x))
       THEN /\ x' = DescendStep(x)
            /\ descSteps' = descSteps + 1
            /\ pc' = "descend"
            /\ UNCHANGED <<outcome, memo>>
       ELSE /\ Finish(Returned(DFin(SeekResult(x))))
            /\ UNCHANGED <<x, descSteps>>
    /\ UNCHANGED <<op, cashFlows, cfs, dates, guessArg, ascSteps, durs, guess,
                   guess_last, limit, iters, calls, numberOfTries>>

\* lines 435-438 and 84: one test of the second loop, and its body or the return
SeekDescend ==
    /\ pc = "descend"
    /\ phase' = "descent"
    /\ \E thrown \in BOOLEAN :
        /\ NpvCall(thrown)
        /\ IF thrown
           THEN /\ Finish(Thrown("ConvergenceFailure"))
                /\ UNCHANGED <<x, evals, evalAt, descSteps>>
           ELSE /\ evals' = evals + 1
                /\ evalAt' = x
                /\ IF DescendsOn(NpvSign(cashFlows, x))
                   THEN /\ x' = DescendStep(x)
                        /\ descSteps' = descSteps + 1
                        /\ pc' = "descend"
                        /\ UNCHANGED <<outcome, memo>>
                   ELSE /\ Finish(Returned(DFin(SeekResult(x))))
                        /\ UNCHANGED <<x, descSteps>>
    /\ UNCHANGED <<op, cashFlows, cfs, dates, guessArg, ascSteps, durs, guess,
                   guess_last, limit, iters, calls>>

-----------------------------------------------------------------------------
(* Finance.XIRR, lines 94-132 *)

\* lines 94-121: the entry of XIRR up to the loop
XIRR ==
    /\ pc = "start" /\ op = "XIRR"
    /\ calls' = calls + 1
    /\ IF Len(cashFlows) # Len(dates) \/ ~ValidSeries(cashFlows)
       THEN /\ Finish(Thrown("InvalidInput"))
            /\ UNCHANGED <<guess, guess_last, limit, durs, iters>>
       ELSE /\ guess' = DFin(guessArg)
            /\ guess_last' = DFin(0)
            /\ limit' = LoopLimit
            /\ iters' = 0
            /\ durs' = Durations(dates)
            /\ pc' = "newton"
            /\ UNCHANGED <<outcome, memo>>
    /\ UNCHANGED <<op, cashFlows, cfs, dates, guessArg, numberOfTries, x, phase,
                   evals, ascSteps, descSteps, evalAt>>

\* mutant: line 127 with >= for >, one iteration more
LoopsOn_OneMore(last, cur, lim) == Differ(last, cur) /\ lim >= 0

\* line 127: the loop goes on
LoopsOn(last, cur, lim) == Differ(last, cur) /\ lim > 0

\* mutant: non-convergence is thrown, as IRR does
XIRRResult_Throws(last, cur) ==
    IF Differ(last, cur) THEN Thrown("ConvergenceFailure")
    ELSE Returned(RoundedPercent(cur))

\* lines 129-131: the value returned after the loop
XIRRResult(last, cur) ==
    IF Differ(last, cur) THEN ReturnedNull ELSE Returned(RoundedPercent(cur))

\* lines 123-131: one iteration of the do-while, and the return when it ends
XIRRIterate ==
    /\ pc = "newton"
    /\ LET next == DSub(guess, sumEq(cashFlows, durs, guess))
       IN  /\ guess_last' = guess
           /\ guess' = next
           /\ limit' = limit - 1
           /\ iters' = iters + 1
           /\ IF LoopsOn(guess, next, limit - 1)
              THEN /\ pc' = "newton"
                   /\ UNCHANGED <<outcome, memo>>
              ELSE Finish(XIRRResult(guess, next))
    /\ UNCHANGED <<op, cashFlows, cfs, dates, guessArg, numberOfTries, x, phase,
                   evals, ascSteps, descSteps, evalAt, durs, calls>>

-----------------------------------------------------------------------------
(* The caller *)

\* a further invocation, after the previous one ended: only the arguments are
\* the caller's; what the solvers left behind stays as it is
Invoke ==
    /\ pc = "done"
    /\ calls < MaxCalls
    /\ pc' = "start"
    /\ outcome' = NoOutcome
    /\ \/ \E in \in SeqIRRInputs :
            /\ op' = "IRR" /\ cfs' = in[1] /\ cashFlows' = in[2]
            /\ dates' = <<>> /\ guessArg' = 0
       \/ \E in \in SeqXIRRInputs :
            /\ op' = "XIRR" /\ cashFlows' = in[1] /\ dates' = in[2]
            /\ guessArg' = in[3] /\ cfs' = 0
    /\ UNCHANGED <<numberOfTries, x, phase, evals, ascSteps, descSteps, evalAt,
                   durs, guess, guess_last, limit, iters, calls, memo>>

Next == IRR \/ SeekAscend \/ SeekDescend \/ XIRR \/ XIRRIterate

NextSeq == Next \/ Invoke

\* one invocation of one solver
Spec == Init /\ [][Next]_vars

NextIRR == IRR \/ SeekAscend \/ SeekDescend

\* lines 60 and 73: a call that has not ended sets or increments the counter;
\* every step of NextIRR is such a step, and one is possible exactly as long
\* as the call has not ended
Running == pc # "done" /\ numberOfTries' = numberOfTries + 1

\* one invocation of IRR, which takes every step it can take: the solver is
\* synchronous code, it runs until it returns or throws
FairSpec == InitIRR /\ [][NextIRR]_vars /\ WF_numberOfTries(Running)

\* up to MaxCalls invocations, one after the other
SeqSpec == InitSeq /\ [][NextSeq]_vars

-----------------------------------------------------------------------------
(* Properties *)

\* a series with a strictly positive and a strictly negative value
BothSigns(cf) == (\E i \in 1..Len(cf) : cf[i] > 0) /\ (\E i \in 1..Len(cf) : cf[i] < 0)

\* an invocation of IRR on a valid series, past its entry
InSearch == op = "IRR" /\ pc # "start" /\ BothSigns(cashFlows)

\* an invocation of XIRR on valid arguments, past its entry
InNewton == op = "XIRR" /\ pc # "start" /\ BothSigns(cashFlows)
                /\ Len(cashFlows) = Len(dates)

Failed == pc = "done" /\ outcome.kind = "ConvergenceFailure"

GaveRate == pc = "done" /\ outcome.kind = "rate"

C2_InvalidRejected ==
    /\ (op = "IRR" /\ pc # "start" /\ ~BothSigns(cashFlows))
          => /\ pc = "done" /\ outcome = Thrown("InvalidInput")
             /\ evals = 0 /\ numberOfTries = 1
    /\ (op = "XIRR" /\ pc # "start"
            /\ (Len(cashFlows) # Len(dates) \/ ~BothSigns(cashFlows)))
          => /\ pc = "done" /\ outcome = Thrown("InvalidInput")
             /\ iters = 0
    /\ (pc = "done" /\ outcome.kind = "InvalidInput")
          => \/ ~BothSigns(cashFlows)
             \/ (op = "XIRR" /\ Len(cashFlows) # Len(dates))

C2_Witness ==
    /\ pc = "done" /\ outcome.kind = "InvalidInput" /\ op = "XIRR"
    /\ Len(cashFlows) # Len(dates) /\ BothSigns(cashFlows)

C4_NullIffExhausted ==
    (InNewton /\ pc = "done") =>
        /\ outcome.kind \in {"null", "rate"}
        /\ outcome.kind = "null" <=> (iters = 100 /\ Differ(guess_last, guess))
        /\ outcome.kind = "rate" => outcome.val = RoundedPercent(guess)

C4_Witness ==
    InNewton /\ pc = "done" /\ outcome.kind = "null" /\ iters = 100

\* C5: on valid input the loop of XIRR runs at least once and at most 100
\* times, each time with guess = guess_last - sumEq(guess_last), and it never
\* runs again once the last two guesses agree as written with 5 decimals.
C5_LoopBounds ==
    InNewton =>
        /\ iters + limit = 100
        /\ iters >= 1 => guess = DSub(guess_last, sumEq(cashFlows, durs, guess_last))
        /\ pc = "newton" => /\ iters < 100
                            /\ iters >= 1 => Differ(guess_last, guess)
        /\ pc = "done" => /\ 1 <= iters /\ iters <= 100
                          /\ Differ(guess_last, guess) => iters = 100

C5_Witness ==
    /\ InNewton /\ pc = "done" /\ ~Differ(guess_last, guess)
    /\ 10 < iters /\ iters < 100 /\ guess.t = "fin"

\* C6, as claimed: the ConvergenceFailure error is raised in the ascent only.
C6_FailsInAscentOnly == Failed => phase = "ascent"

\* C6, amended: every call of fn, of the ascent and of the descent, counts
\* against maxTries, and the call that takes the counter above maxTries
\* throws, in either loop.
C6_CapCoversBothLoops ==
    InSearch =>
        /\ numberOfTries = 1 + evals + (IF Failed THEN 1 ELSE 0)
        /\ Failed => numberOfTries > cfs
        /\ (evals >= 1 /\ ~Failed) => numberOfTries <= cfs
        /\ pc = "ascend" => evals = ascSteps
        /\ pc = "descend" => evals = ascSteps + 1 + descSteps
        /\ GaveRate => evals = ascSteps + 1 + descSteps + 1

C6_Witness == InSearch /\ Failed /\ phase = "descent" /\ descSteps > 0

\* C7: the outcome of a call depends on its arguments only: two finished
\* calls with the same arguments have the same outcome, whatever was called
\* in between, and a call leaves the caller's arrays as they are.
C7_Deterministic ==
    /\ [](\A a, b \in memo :
            (a.op = b.op /\ a.cashFlows = b.cashFlows /\ a.cfs = b.cfs
                /\ a.dates = b.dates /\ a.guessArg = b.guessArg) => a.out = b.out)
    /\ [][pc # "done" => (cashFlows' = cashFlows /\ dates' = dates)]_vars

C7_Witness ==
    /\ pc = "done" /\ calls = 3 /\ Cardinality(memo) = 2
    /\ \E a \in memo : a.out.kind = "ConvergenceFailure"
    /\ outcome.kind = "rate" /\ op = "IRR"

\* C8, as claimed: IRR fails on the evaluation that follows the maxTries-th.
C8_FailsAfterMaxTries == (InSearch /\ Failed) => evals = cfs

\* C8, amended: the counter starts at 1, so at most maxTries - 1 evaluations
\* run; IRR fails on the maxTries-th attempt (on the first when maxTries < 1),
\* and a search that returns made fewer than maxTries evaluations.
C8_FailsOnMaxTriesth ==
    InSearch =>
        /\ Failed => evals = (IF cfs >= 1 THEN cfs - 1 ELSE 0)
        /\ GaveRate => evals < cfs

C8_Witness == InSearch /\ Failed /\ evals = cfs - 1 /\ evals >= 2

\* C9: IRR evaluates NPV only at rates above -100 percent, and returns only
\* rates above -100 percent.
C9_RatesAboveSingular ==
    InSearch =>
        /\ evals > 0 => evalAt > -10000
        /\ GaveRate => outcome.val.v > -10000

=============================================================================
